---- MODULE Spec2Model ----
(***************************************************************************)
(* Model of extract_info_repere.py: the fixed-layout parser extract_fxyz   *)
(* (with float2str and is_number), and the multiprocessing orchestration   *)
(* (main, worker, listener) around the shared output file.                 *)
(*                                                                         *)
(* A line of text is a sequence of tokens; a token is one character        *)
(* (" ", ",", ".", "-", a digit, the newline) or a whole word of a marker. *)
(* Python indices are kept 0-based: ls[i] of the code is At(ls, i).        *)
(***************************************************************************)
EXTENDS Integers, Sequences, FiniteSets, TLC

VARIABLES
    \* ---- orchestration (main / worker / listener) ----
    cpu,        \* mp.cpu_count()
    fork,       \* TRUE: pool children inherit the globals of __main__ (fork);
                \* FALSE: they re-import the module (spawn), __main__ guard not run
    nb_tot,     \* number of identifiers read from path_ls_matricule
    outfile,    \* lines of the file at path_data
    q,          \* manager.Queue(): messages in flight
    taskq,      \* tasks submitted to the pool and not yet taken by a process
    mpc,        \* position of the main process
    mi,         \* main: index of the next job to submit / to collect
    lst,        \* listener task: position
    jst,        \* worker job j: position
    docs,       \* worker job j: what download_data left for it (the .txt, or an error)
    ldata,      \* worker job j: its ls_data
    wbuf,       \* worker job j: chunks of the append not yet written
    \* ---- parser driven alone ----
    text,       \* the lines of a converted sheet, as f.readlines() returns them
    pres,       \* what extract_fxyz did with text
    ppc,        \* position of the parser driver
    \* ---- float2str driven alone ----
    nin,        \* a raw field string
    nout,       \* float2str(nin)
    nout2,      \* float2str(nout)
    npc         \* position of the float2str driver

vars == <<cpu, fork, nb_tot, outfile, q, taskq, mpc, mi, lst, jst, docs, ldata, wbuf,
          text, pres, ppc, nin, nout, nout2, npc>>

orchVars == <<cpu, fork, nb_tot, outfile, q, taskq, mpc, mi, lst, jst, docs, ldata, wbuf>>
parseVars == <<text, pres, ppc>>
normVars == <<nin, nout, nout2, npc>>

(***************************************************************************)
(* Bounds                                                                  *)
(***************************************************************************)
MaxLines == 8     \* longest text given to the parser driver
MaxN == 2         \* most identifiers in the input list
MaxCpu == 3       \* largest processor count
MaxStr == 5       \* longest string given to the float2str driver

(***************************************************************************)
(* Tokens and the literal lines of the code                                *)
(***************************************************************************)
NL == "\n"
SP == " "
Digits == {"0", "1", "2", "3", "4", "5", "6", "7", "8", "9"}
Whitespace == {SP, NL, "\t"}

Coordonnees == <<"Coordonnées">>
Latitude == <<SP, "Latitude/y", SP, "(m)">>
Longitude == <<SP, "Longitude/x", SP, "(m)">>
Scopq == <<"SCOPQ">>
Recouv == <<"Recouv.">>
EmptyLine == <<>>
AltitudeMarker == <<"Altitude", SP, "orthométrique", SP, "(m)", SP, ":">>
Blank == <<SP>>

NoteNone == " "
NoteAltIntrouvable == "Altitude existante, mais introuvable"
NoteAucuneAltitude == "Aucune altitude"
NoteAucunesCoord == "Aucunes coordonnées"
NoteEchec == "Échec du téléchargement"

(***************************************************************************)
(* Python list helpers                                                     *)
(***************************************************************************)
At(ls, i) == ls[i + 1]

InRange(ls, i) == 0 <= i /\ i < Len(ls)

\* ls[i] with Python's negative indices; the caller checks PyInRange first
PyAt(ls, i) == IF i < 0 THEN ls[Len(ls) + i + 1] ELSE ls[i + 1]

PyInRange(ls, i) == -Len(ls) <= i /\ i < Len(ls)

Has(ls, v) == \E i \in 1..Len(ls) : ls[i] = v

\* ls.index(v), defined when Has(ls, v)
Index(ls, v) == (CHOOSE i \in 1..Len(ls) : ls[i] = v /\ \A k \in 1..(i - 1) : ls[k] # v) - 1

\* ls[a:]
SliceFrom(ls, a) == SubSeq(ls, a + 1, Len(ls))

(***************************************************************************)
(* str.rstrip(), float2str, is_number                                      *)
(***************************************************************************)
RECURSIVE rstrip(_)
rstrip(x) ==
    IF x # <<>> /\ x[Len(x)] \in Whitespace
    THEN rstrip(SubSeq(x, 1, Len(x) - 1))
    ELSE x

RECURSIVE ReplaceAll(_, _, _)
\* x.replace(old, new) for a one-character old; new is a token sequence
ReplaceAll(x, old, new) ==
    IF x = <<>> THEN <<>>
    ELSE (IF Head(x) = old THEN new ELSE <<Head(x)>>) \o ReplaceAll(Tail(x), old, new)

RECURSIVE ReplaceFirst(_, _, _)
\* x.replace(old, new, 1)
ReplaceFirst(x, old, new) ==
    IF x = <<>> THEN <<>>
    ELSE IF Head(x) = old THEN new \o Tail(x)
    ELSE <<Head(x)>> \o ReplaceFirst(Tail(x), old, new)

float2str_FirstSpaceOnly(x) == ReplaceAll(ReplaceFirst(x, SP, <<>>), ",", <<".">>)

float2str(x) == ReplaceAll(ReplaceAll(x, SP, <<>>), ",", <<".">>)

\* float(x) succeeds; exact for strings over digits, ".", "-", "+" and the
\* marker words (no exponent, "inf", "nan" or "_" occurs in the texts used)
is_number(x) ==
    LET body == IF x # <<>> /\ x[1] \in {"-", "+"} THEN Tail(x) ELSE x
        dots == Cardinality({i \in 1..Len(body) : body[i] = "."})
        digs == Cardinality({i \in 1..Len(body) : body[i] \in Digits})
    IN  /\ \A i \in 1..Len(body) : body[i] \in Digits \cup {"."}
        /\ dots <= 1
        /\ digs >= 1

(***************************************************************************)
(* extract_fxyz                                                            *)
(***************************************************************************)
\* "\t".join([...]) of six fields, the trailing "\n" of the note left out
DataLine(m, fus, y, x, z, note) ==
    [id |-> m, zone |-> fus, y |-> y, x |-> x, z |-> z, note |-> note]

Returned(ls_data) == [raised |-> FALSE, data |-> ls_data]
Raised == [raised |-> TRUE, data |-> <<>>]

ReadLines(raw) == [i \in 1..Len(raw) |-> rstrip(raw[i])]

\* Altitude with the notes of its two failure branches exchanged
Altitude_NotesSwapped(ls_lines) ==
    IF ~Has(ls_lines, AltitudeMarker)
    THEN [alt |-> Blank, note |-> NoteAltIntrouvable]
    ELSE LET index_alt == Index(ls_lines, AltitudeMarker)
         IN  IF ~InRange(ls_lines, index_alt + 1)
             THEN [alt |-> Blank, note |-> NoteAltIntrouvable]
             ELSE IF is_number(float2str(At(ls_lines, index_alt + 1)))
             THEN [alt |-> float2str(At(ls_lines, index_alt + 1)), note |-> NoteNone]
             ELSE [alt |-> Blank, note |-> NoteAucuneAltitude]

\* lines 94-107: the elif tests the line after the marker a second time
Altitude(ls_lines) ==
    IF ~Has(ls_lines, AltitudeMarker)
    THEN [alt |-> Blank, note |-> NoteAucuneAltitude]
    ELSE LET index_alt == Index(ls_lines, AltitudeMarker)
         IN  IF ~InRange(ls_lines, index_alt + 1)
             THEN [alt |-> Blank, note |-> NoteAucuneAltitude]   \* IndexError, caught
             ELSE IF is_number(float2str(At(ls_lines, index_alt + 1)))
             THEN [alt |-> float2str(At(ls_lines, index_alt + 1)), note |-> NoteNone]
             ELSE IF is_number(float2str(At(ls_lines, index_alt + 1)))
             THEN IF PyInRange(ls_lines, index_alt - 1)
                  THEN [alt |-> float2str(PyAt(ls_lines, index_alt - 1)), note |-> NoteNone]
                  ELSE [alt |-> Blank, note |-> NoteAucuneAltitude]
             ELSE [alt |-> Blank, note |-> NoteAltIntrouvable]

NoCoordResult_WrongNote(m) == <<DataLine(m, Blank, Blank, Blank, Blank, NoteEchec)>>

\* line 124
NoCoordResult(m) == <<DataLine(m, Blank, Blank, Blank, Blank, NoteAucunesCoord)>>

FusIndex_NoMinusOne(index_tbl, nb_line_tbl, k) == index_tbl + nb_line_tbl + k

FusIndex(index_tbl, nb_line_tbl, k) == index_tbl + nb_line_tbl + k - 1

\* lines 109-122, once every mandatory lookup of lines 82-86 has succeeded
TableResult(m, ls_lines, index_tbl) ==
    LET tbl == SliceFrom(ls_lines, index_tbl)
        index_latitude == Index(ls_lines, Latitude)
        index_longitude == Index(ls_lines, Longitude)
        nb_line_tbl == Index(tbl, EmptyLine)
        index_scopq_tbl == Index(tbl, Scopq)
        recouvrement == Has(tbl, Recouv)
        index_recouv_tbl == Index(tbl, Recouv)
        a == Altitude(ls_lines)
        f0 == FusIndex(index_tbl, nb_line_tbl, index_scopq_tbl)
        y0 == index_latitude + index_scopq_tbl
        x0 == index_longitude + index_scopq_tbl
        f1 == FusIndex(index_tbl, nb_line_tbl, index_recouv_tbl)
        y1 == index_latitude + index_recouv_tbl
        x1 == index_longitude + index_recouv_tbl
        line0 == DataLine(m, At(ls_lines, f0), float2str(At(ls_lines, y0)),
                          float2str(At(ls_lines, x0)), a.alt, a.note)
        line1 == DataLine(m, At(ls_lines, f1), float2str(At(ls_lines, y1)),
                          float2str(At(ls_lines, x1)), a.alt, a.note)
    IN  IF ~(InRange(ls_lines, f0) /\ InRange(ls_lines, y0) /\ InRange(ls_lines, x0))
        THEN Raised                                   \* IndexError, lines 110-112
        ELSE IF ~recouvrement
        THEN Returned(<<line0>>)
        ELSE IF ~(InRange(ls_lines, f1) /\ InRange(ls_lines, y1) /\ InRange(ls_lines, x1))
        THEN Raised                                   \* IndexError, lines 118-120
        ELSE Returned(<<line0, line1>>)

\* extract_fxyz with the elevation block moved out of the valid branch
extract_fxyz_ElevationWithoutTable(m, raw) ==
    LET ls_lines == ReadLines(raw)
    IN  IF ~Has(ls_lines, Coordonnees)
        THEN Returned(<<DataLine(m, Blank, Blank, Blank, Altitude(ls_lines).alt,
                                 NoteAucunesCoord)>>)
        ELSE LET index_tbl == Index(ls_lines, Coordonnees) + 1
                 tbl == SliceFrom(ls_lines, index_tbl)
             IN  IF ~(/\ Has(ls_lines, Latitude)
                      /\ Has(ls_lines, Longitude)
                      /\ Has(tbl, EmptyLine)
                      /\ Has(tbl, Scopq))
                 THEN Raised
                 ELSE TableResult(m, ls_lines, index_tbl)

extract_fxyz(m, raw) ==
    LET ls_lines == ReadLines(raw)
    IN  IF ~Has(ls_lines, Coordonnees)
        THEN Returned(NoCoordResult(m))
        ELSE LET index_tbl == Index(ls_lines, Coordonnees) + 1
                 tbl == SliceFrom(ls_lines, index_tbl)
             IN  IF ~(/\ Has(ls_lines, Latitude)
                      /\ Has(ls_lines, Longitude)
                      /\ Has(tbl, EmptyLine)
                      /\ Has(tbl, Scopq))
                 THEN Raised                          \* ValueError, lines 82-86
                 ELSE TableResult(m, ls_lines, index_tbl)

(***************************************************************************)
(* The parser driven alone: a text is built line by line from LineKinds    *)
(* (each kind at most once), then parsed.                                  *)
(***************************************************************************)
Matricule == "12345"

NumLine == <<"1", SP, "2", "3", "4", ",", "5">>
NegLine == <<"-", "7", "1", ",", "4">>

\* what f.readlines() yields: the line, trailing blanks, the newline
RawLine(l) == l \o <<NL>>

LineKinds ==
    { RawLine(Coordonnees), RawLine(Scopq), RawLine(Recouv), RawLine(EmptyLine),
      RawLine(Latitude), RawLine(Longitude), RawLine(AltitudeMarker \o <<SP>>),
      RawLine(NumLine), RawLine(NegLine \o <<SP>>) }

NotParsed == [raised |-> FALSE, data |-> <<>>]

PInit ==
    /\ text = <<>>
    /\ pres = NotParsed
    /\ ppc = "build"
    /\ cpu = 0 /\ fork = FALSE /\ nb_tot = 0
    /\ outfile = <<>> /\ q = <<>> /\ taskq = <<>>
    /\ mpc = "off" /\ mi = 0 /\ lst = "none"
    /\ jst = <<>> /\ docs = <<>> /\ ldata = <<>> /\ wbuf = <<>>
    /\ nin = <<>> /\ nout = <<>> /\ nout2 = <<>> /\ npc = "off"

AddLine(l) ==
    /\ ppc = "build"
    /\ Len(text) < MaxLines
    /\ ~Has(text, l)
    /\ text' = Append(text, l)
    /\ UNCHANGED <<pres, ppc>>
    /\ UNCHANGED <<orchVars, normVars>>

Parse ==
    /\ ppc = "build"
    /\ pres' = extract_fxyz(Matricule, text)
    /\ ppc' = "parsed"
    /\ UNCHANGED text
    /\ UNCHANGED <<orchVars, normVars>>

PNext ==
    \/ \E l \in LineKinds : AddLine(l)
    \/ Parse

ParseSpec == PInit /\ [][PNext]_vars

(***************************************************************************)
(* float2str driven alone: a string is built character by character, then  *)
(* normalized twice.                                                       *)
(***************************************************************************)
NormAlphabet == {"1", "5", SP, ",", ".", "-"}

NInit ==
    /\ nin = <<>> /\ nout = <<>> /\ nout2 = <<>>
    /\ npc = "build"
    /\ text = <<>> /\ pres = NotParsed /\ ppc = "off"
    /\ cpu = 0 /\ fork = FALSE /\ nb_tot = 0
    /\ outfile = <<>> /\ q = <<>> /\ taskq = <<>>
    /\ mpc = "off" /\ mi = 0 /\ lst = "none"
    /\ jst = <<>> /\ docs = <<>> /\ ldata = <<>> /\ wbuf = <<>>

AddChar(c) ==
    /\ npc = "build"
    /\ Len(nin) < MaxStr
    /\ nin' = Append(nin, c)
    /\ UNCHANGED <<nout, nout2, npc>>
    /\ UNCHANGED <<orchVars, parseVars>>

Normalize ==
    /\ npc = "build"
    /\ nout' = float2str(nin)
    /\ npc' = "once"
    /\ UNCHANGED <<nin, nout2>>
    /\ UNCHANGED <<orchVars, parseVars>>

NormalizeAgain ==
    /\ npc = "once"
    /\ nout2' = float2str(nout)
    /\ npc' = "twice"
    /\ UNCHANGED <<nin, nout>>
    /\ UNCHANGED <<orchVars, parseVars>>

NNext ==
    \/ \E c \in NormAlphabet : AddChar(c)
    \/ Normalize
    \/ NormalizeAgain

NormSpec == NInit /\ [][NNext]_vars

\* C13: float2str is idempotent on every string over digits, space, comma,
\* period and minus, and float2str("1 234,5") = "1234.5".
C13_NormalizeIdempotent ==
    /\ npc = "twice" => nout2 = nout
    /\ float2str(<<"1", " ", "2", "3", "4", ",", "5">>) = <<"1", "2", "3", "4", ".", "5">>

\* a string with two spaces and a comma has been normalized twice
C13_Witness ==
    /\ npc = "twice"
    /\ Cardinality({i \in 1..Len(nin) : nin[i] = " "}) >= 2
    /\ \E i \in 1..Len(nin) : nin[i] = ","
    /\ nout # nin
    /\ nout2 = nout

(***************************************************************************)
(* The run: __main__, main, the pool, worker and listener                  *)
(***************************************************************************)
\* the identifiers of the input list, one per line
Ident(j) == <<"12345", "23456", "34567", "45678">>[j]

Jobs == 1..nb_tot

\* line 210
Header == DataLine("matricule_repere", <<"fuseau">>, <<"y">>, <<"x">>, <<"z">>, "Note")

\* line 151
FailLine(m) == DataLine(m, Blank, Blank, Blank, Blank, NoteEchec)

\* line 168: not a result line
Killed == [raw |-> "killed"]

\* something left in path_data by an earlier run
StaleLine == [raw |-> "stale"]

\* Converted sheets a download can leave behind: a sheet with the primary
\* set only, one with the overlap set too, and one whose table has no
\* SCOPQ row.
SheetOne ==
    << RawLine(Coordonnees), RawLine(<<"Projection">>), RawLine(<<"MTM">>),
       RawLine(Scopq), RawLine(EmptyLine), RawLine(<<"7">>), RawLine(EmptyLine),
       RawLine(Latitude), RawLine(EmptyLine), RawLine(<<"5", SP, "1", "2", ",", "3">>),
       RawLine(Longitude), RawLine(EmptyLine), RawLine(<<"2", "5", ",", "5">>),
       RawLine(AltitudeMarker), RawLine(<<"1", "2", ",", "4">>) >>

SheetTwo ==
    << RawLine(Coordonnees), RawLine(<<"Projection">>), RawLine(<<"MTM">>),
       RawLine(Scopq), RawLine(Recouv), RawLine(EmptyLine),
       RawLine(<<"7">>), RawLine(<<"8">>), RawLine(EmptyLine),
       RawLine(Latitude), RawLine(EmptyLine),
       RawLine(<<"5", SP, "1", "2", ",", "3">>), RawLine(<<"5", SP, "1", "0", ",", "1">>),
       RawLine(Longitude), RawLine(EmptyLine),
       RawLine(<<"2", "5", ",", "5">>), RawLine(<<"-", "7", "1", ",", "4">>),
       RawLine(AltitudeMarker) >>

SheetNoScopq ==
    << RawLine(Coordonnees), RawLine(EmptyLine), RawLine(Latitude), RawLine(Longitude) >>

\* download_data: an exception (requests, subprocess), or the .txt it wrote
Documents ==
    { [ok |-> FALSE, lines |-> <<>>] }
    \cup { [ok |-> TRUE, lines |-> t] : t \in {SheetOne, SheetTwo, SheetNoScopq} }

NoDocument == [ok |-> FALSE, lines |-> <<>>]

\* lines 147-149 without the except clause
TryBody(m, doc) == IF ~doc.ok THEN Raised ELSE extract_fxyz(m, doc.lines)

WorkerData_NoExcept(m, doc) == TryBody(m, doc)

\* lines 147-151: ls_data of the worker; the except clause makes it a single
\* string, which writelines writes as the one line it is
WorkerData(m, doc) ==
    IF TryBody(m, doc).raised THEN Returned(<<FailLine(m)>>) ELSE TryBody(m, doc)

WriteChunks_Unbuffered(ls_data) == [i \in 1..Len(ls_data) |-> <<ls_data[i]>>]

\* lines 153-154: writelines fills the buffer of f, closing f flushes it in
\* one write to the file opened for append
WriteChunks(ls_data) == <<ls_data>>

\* mp.Pool(mp.cpu_count() - 1), line 177
PoolSize == cpu - 1

ListenerTask == 0

Busy(st) == st \in {"running", "append", "put"}

Running ==
    Cardinality({j \in Jobs : Busy(jst[j])})
    + (IF lst \in {"started", "waiting"} THEN 1 ELSE 0)

JobReady_NoWait(j) == TRUE

\* job.get() returns (or re-raises) once the task has ended, line 190
JobReady(j) == jst[j] \in {"done", "failed"}

\* pool.join(), line 195: every task handed to the pool has ended
PoolIdle == taskq = <<>> /\ Running = 0

KillMsg == [kind |-> "kill", data |-> <<>>]
DataMsg(ls_data) == [kind |-> "data", data |-> ls_data]

\* the name path_data is a global of __main__, which a pool process has
\* only when it was forked from the main process
PathDataDefined == fork

\* f.write('killed') at the start of a file opened with mode 'w'
WriteAtStart(file, frag) == IF file = <<>> THEN <<frag>> ELSE <<frag>> \o Tail(file)

Init ==
    /\ cpu \in 1..MaxCpu
    /\ fork \in BOOLEAN
    /\ nb_tot \in 0..MaxN
    /\ outfile \in {<<>>, <<StaleLine>>}
    /\ q = <<>>
    /\ taskq = <<>>
    /\ mpc = "header"
    /\ mi = 1
    /\ lst = "none"
    /\ jst = [j \in 1..nb_tot |-> "none"]
    /\ docs = [j \in 1..nb_tot |-> NoDocument]
    /\ ldata = [j \in 1..nb_tot |-> <<>>]
    /\ wbuf = [j \in 1..nb_tot |-> <<>>]
    /\ text = <<>> /\ pres = NotParsed /\ ppc = "off"
    /\ nin = <<>> /\ nout = <<>> /\ nout2 = <<>> /\ npc = "off"

\* lines 209-210
WriteHeader ==
    /\ mpc = "header"
    /\ outfile' = <<Header>>
    /\ mpc' = "pool"
    /\ UNCHANGED <<cpu, fork, nb_tot, q, taskq, mi, lst, jst, docs, ldata, wbuf>>
    /\ UNCHANGED <<parseVars, normVars>>

\* lines 175-177: Pool(n) raises ValueError for n < 1
CreatePool ==
    /\ mpc = "pool"
    /\ mpc' = IF PoolSize < 1 THEN "crashed" ELSE "watcher"
    /\ UNCHANGED <<cpu, fork, nb_tot, outfile, q, taskq, mi, lst, jst, docs, ldata, wbuf>>
    /\ UNCHANGED <<parseVars, normVars>>

\* line 180
SubmitListener ==
    /\ mpc = "watcher"
    /\ taskq' = Append(taskq, ListenerTask)
    /\ lst' = "queued"
    /\ mi' = 1
    /\ mpc' = IF nb_tot = 0 THEN "kill" ELSE "submit"
    /\ UNCHANGED <<cpu, fork, nb_tot, outfile, q, jst, docs, ldata, wbuf>>
    /\ UNCHANGED <<parseVars, normVars>>

\* lines 184-186
SubmitJob ==
    /\ mpc = "submit"
    /\ taskq' = Append(taskq, mi)
    /\ jst' = [jst EXCEPT ![mi] = "queued"]
    /\ mi' = IF mi = nb_tot THEN 1 ELSE mi + 1
    /\ mpc' = IF mi = nb_tot THEN "collect" ELSE "submit"
    /\ UNCHANGED <<cpu, fork, nb_tot, outfile, q, lst, docs, ldata, wbuf>>
    /\ UNCHANGED <<parseVars, normVars>>

\* lines 189-190: get() re-raises what the task raised
JobGet ==
    /\ mpc = "collect"
    /\ JobReady(mi)
    /\ mpc' = IF jst[mi] = "failed" THEN "crashed"
              ELSE IF mi = nb_tot THEN "kill" ELSE "collect"
    /\ mi' = IF mi = nb_tot THEN mi ELSE mi + 1
    /\ UNCHANGED <<cpu, fork, nb_tot, outfile, q, taskq, lst, jst, docs, ldata, wbuf>>
    /\ UNCHANGED <<parseVars, normVars>>

\* line 193
PutKill ==
    /\ mpc = "kill"
    /\ q' = Append(q, KillMsg)
    /\ mpc' = "join"
    /\ UNCHANGED <<cpu, fork, nb_tot, outfile, taskq, mi, lst, jst, docs, ldata, wbuf>>
    /\ UNCHANGED <<parseVars, normVars>>

\* lines 194-195
PoolJoin ==
    /\ mpc = "join"
    /\ PoolIdle
    /\ mpc' = "done"
    /\ UNCHANGED <<cpu, fork, nb_tot, outfile, q, taskq, mi, lst, jst, docs, ldata, wbuf>>
    /\ UNCHANGED <<parseVars, normVars>>

\* a free pool process takes the listener task
ListenerStart ==
    /\ taskq # <<>> /\ Head(taskq) = ListenerTask
    /\ Running < PoolSize
    /\ taskq' = Tail(taskq)
    /\ lst' = "started"
    /\ UNCHANGED <<cpu, fork, nb_tot, outfile, q, mpc, mi, jst, docs, ldata, wbuf>>
    /\ UNCHANGED <<parseVars, normVars>>

\* line 164: open(path_data, 'w') truncates; NameError where path_data is
\* not a global of the pool process
ListenerOpen ==
    /\ lst = "started"
    /\ IF PathDataDefined
       THEN outfile' = <<>> /\ lst' = "waiting"
       ELSE outfile' = outfile /\ lst' = "died"
    /\ UNCHANGED <<cpu, fork, nb_tot, q, taskq, mpc, mi, jst, docs, ldata, wbuf>>
    /\ UNCHANGED <<parseVars, normVars>>

\* lines 166-171: 'kill' writes 'killed' and ends the task; for any other
\* message, f.writelines(ls_data) raises NameError (ls_data is no name of
\* listener nor a global) and the task ends without writing
ListenerGet ==
    /\ lst = "waiting"
    /\ q # <<>>
    /\ q' = Tail(q)
    /\ IF Head(q) = KillMsg
       THEN outfile' = WriteAtStart(outfile, Killed) /\ lst' = "exited"
       ELSE outfile' = outfile /\ lst' = "died"
    /\ UNCHANGED <<cpu, fork, nb_tot, taskq, mpc, mi, jst, docs, ldata, wbuf>>
    /\ UNCHANGED <<parseVars, normVars>>

\* a free pool process takes the job
WorkerStart(j) ==
    /\ taskq # <<>> /\ Head(taskq) = j
    /\ Running < PoolSize
    /\ taskq' = Tail(taskq)
    /\ jst' = [jst EXCEPT ![j] = "running"]
    /\ UNCHANGED <<cpu, fork, nb_tot, outfile, q, mpc, mi, lst, docs, ldata, wbuf>>
    /\ UNCHANGED <<parseVars, normVars>>

\* lines 147-151
WorkerCompute(j, doc) ==
    /\ jst[j] = "running"
    /\ docs' = [docs EXCEPT ![j] = doc]
    /\ IF WorkerData(Ident(j), doc).raised
       THEN /\ jst' = [jst EXCEPT ![j] = "failed"]
            /\ UNCHANGED <<ldata, wbuf>>
       ELSE /\ jst' = [jst EXCEPT ![j] = "append"]
            /\ ldata' = [ldata EXCEPT ![j] = WorkerData(Ident(j), doc).data]
            /\ wbuf' = [wbuf EXCEPT ![j] = WriteChunks(WorkerData(Ident(j), doc).data)]
    /\ UNCHANGED <<cpu, fork, nb_tot, outfile, q, taskq, mpc, mi, lst>>
    /\ UNCHANGED <<parseVars, normVars>>

\* lines 153-154: one write call appends one chunk
WorkerAppend(j) ==
    /\ jst[j] = "append"
    /\ outfile' = outfile \o Head(wbuf[j])
    /\ wbuf' = [wbuf EXCEPT ![j] = Tail(wbuf[j])]
    /\ jst' = [jst EXCEPT ![j] = IF Tail(wbuf[j]) = <<>> THEN "put" ELSE "append"]
    /\ UNCHANGED <<cpu, fork, nb_tot, q, taskq, mpc, mi, lst, docs, ldata>>
    /\ UNCHANGED <<parseVars, normVars>>

\* lines 158-159
WorkerPut(j) ==
    /\ jst[j] = "put"
    /\ q' = Append(q, DataMsg(ldata[j]))
    /\ jst' = [jst EXCEPT ![j] = "done"]
    /\ UNCHANGED <<cpu, fork, nb_tot, outfile, taskq, mpc, mi, lst, docs, ldata, wbuf>>
    /\ UNCHANGED <<parseVars, normVars>>

Next ==
    \/ WriteHeader
    \/ CreatePool
    \/ SubmitListener
    \/ SubmitJob
    \/ JobGet
    \/ PutKill
    \/ PoolJoin
    \/ ListenerStart
    \/ ListenerOpen
    \/ ListenerGet
    \/ \E j \in Jobs : WorkerStart(j)
    \/ \E j \in Jobs : \E doc \in Documents : WorkerCompute(j, doc)
    \/ \E j \in Jobs : WorkerAppend(j)
    \/ \E j \in Jobs : WorkerPut(j)

Spec == Init /\ [][Next]_vars

\* every step of main, of the listener and of a worker that can be taken is
\* eventually taken (each fetch, convert and parse finishes; the OS runs
\* every process)
FairSpec == Spec /\ WF_vars(Next)

(***************************************************************************)
(* Claims about the run (checked under Spec, C4 under FairSpec)            *)
(***************************************************************************)
IsLineOf(l, m) == "id" \in DOMAIN l /\ l.id = m

LinesOf(m) == {i \in 1..Len(outfile) : IsLineOf(outfile[i], m)}

\* a stage of job j (fetch, convert or parse) raised
StageRaised(j) ==
    ~docs[j].ok \/ extract_fxyz(Ident(j), docs[j].lines).raised

Computed(j) == jst[j] \in {"append", "put", "done"}

\* C1: when the run has completed, the output file holds one or two result
\* lines for each input identifier.
C1_OneOrTwoLinesPerIdentifier ==
    mpc = "done" => \A j \in Jobs : Cardinality(LinesOf(Ident(j))) \in {1, 2}

\* C2: after startup the output file is changed only by a step of the
\* writer task (the listener), never by a worker job.
C2_OnlyWriterMutatesFile ==
    [][(mpc # "header" /\ outfile' # outfile) => lst' # lst]_vars

\* C3: the lines of one job stand in the output file as one contiguous
\* block: no line of another job lies between two lines of a job.
C3_JobBlockContiguous ==
    \A j \in Jobs : \A a, b \in LinesOf(Ident(j)) :
        \A c \in a..b : c \in LinesOf(Ident(j))

\* two jobs were in flight together, one of them with an overlap result, and
\* the lines of both are in the file
C3_Witness ==
    \E j, k \in Jobs :
        /\ j # k
        /\ Cardinality(LinesOf(Ident(j))) = 2
        /\ Cardinality(LinesOf(Ident(k))) >= 1
        /\ \E i \in LinesOf(Ident(k)) : \E i2 \in LinesOf(Ident(j)) : i < i2
        /\ jst[j] = "put" /\ jst[k] = "put"

\* C4: with a pool of at least one process the run eventually completes
\* (main returns), whatever the number of identifiers.
C4_RunCompletes == (PoolSize >= 1) => <>(mpc = "done")

\* C5: once the header is written it stays the first line of the output
\* file: the file is truncated at startup only and appended to afterwards.
C5_HeaderStaysFirst ==
    mpc # "header" => (outfile # <<>> /\ outfile[1] = Header)

\* C6: a job one of whose stages raised emits exactly one line: its
\* identifier, four blank fields and the note "Échec du téléchargement"; no
\* job ends with an exception, main is not stopped by one, and every job
\* whose stages did not raise emits the lines the parser returned.
C6_FailureIsolated ==
    /\ \A j \in Jobs : jst[j] # "failed"
    /\ (mpc = "crashed" => PoolSize < 1)
    /\ \A j \in Jobs : Computed(j) =>
          IF StageRaised(j)
          THEN ldata[j] = << [id |-> Ident(j), zone |-> <<" ">>, y |-> <<" ">>,
                              x |-> <<" ">>, z |-> <<" ">>,
                              note |-> "Échec du téléchargement"] >>
          ELSE /\ ldata[j] = extract_fxyz(Ident(j), docs[j].lines).data
               /\ Len(ldata[j]) \in {1, 2}

\* the run is over: one job's stage raised (a failed download, or a parse
\* that raised) and another job delivered its two lines
C6_Witness ==
    /\ mpc = "done"
    /\ \E j, l \in Jobs :
          /\ StageRaised(j) /\ jst[j] = "done" /\ Len(ldata[j]) = 1
          /\ ~StageRaised(l) /\ jst[l] = "done" /\ Len(ldata[l]) = 2

HasKill(queue) == \E i \in 1..Len(queue) : queue[i] = KillMsg

\* C7: the stop sentinel is put on the queue only when every submitted job
\* has finished, no job message is behind it in the queue, and main returns
\* only when the writer task has ended.
C7_KillAfterJobsReturnAfterWriter ==
    /\ (HasKill(q) \/ mpc \in {"join", "done"}) => \A j \in Jobs : jst[j] = "done"
    /\ \A i, k \in 1..Len(q) : (q[i] = KillMsg /\ i < k) => q[k] = KillMsg
    /\ mpc = "done" => (lst \in {"exited", "died"} /\ PoolIdle)

\* main has returned after a run of several jobs whose sentinel is queued
\* behind job messages
C7_Witness ==
    /\ mpc = "done"
    /\ nb_tot >= 2
    /\ HasKill(q) /\ Len(q) >= 2
    /\ lst = "died"

\* C16: the writer task takes messages off the queue in arrival order, and
\* for each job message it takes it writes the lines the message carries
\* and goes on to the next message.
C16_WriterWritesEachMessage ==
    [][(Len(q') < Len(q)) =>
          /\ q' = Tail(q)
          /\ (Head(q) # KillMsg) =>
                (outfile' = outfile \o Head(q).data /\ lst' = "waiting")]_vars

\* C17: for every processor count c >= 1 the pool is created, with
\* max(1, c - 1) processes.
C17_PoolOfAtLeastOneProcess ==
    (mpc \notin {"header", "pool"}) =>
        /\ mpc # "crashed"
        /\ PoolSize = (IF cpu - 1 > 1 THEN cpu - 1 ELSE 1)

\* C18: the writer task ends only by taking the stop sentinel, so when the
\* run has completed every message has been consumed and the queue is empty.
C18_WriterLivesUntilSentinel ==
    /\ lst # "died"
    /\ mpc = "done" => (lst = "exited" /\ q = <<>>)

\* C20: at completion the output file holds nothing but the header line and
\* result lines of the jobs: the stop sentinel makes the writer write
\* nothing.
C20_OnlyHeaderAndResultLines ==
    mpc = "done" =>
        \A i \in 1..Len(outfile) :
            \/ outfile[i] = Header
            \/ \E j \in Jobs : IsLineOf(outfile[i], Ident(j))

(***************************************************************************)
(* Claims about the parser (checked under ParseSpec)                       *)
(***************************************************************************)
Parsed == ppc = "parsed"

\* the lines the code searches: ls_lines after line 72
TextLines == [i \in 1..Len(text) |-> rstrip(text[i])]

MarkerPresent == \E i \in 1..Len(text) : TextLines[i] = Coordonnees

\* position (0-based) of the first "Coordonnées" line
MarkerAt == CHOOSE i \in 0..(Len(text) - 1) :
                /\ TextLines[i + 1] = Coordonnees
                /\ \A k \in 0..(i - 1) : TextLines[k + 1] # Coordonnees

\* a row label stands in the table region, i.e. after the marker line
RowPresent(label) ==
    /\ MarkerPresent
    /\ \E i \in (MarkerAt + 2)..Len(text) : TextLines[i] = label

\* C8: a text with no "Coordonnées" line parses to exactly one result: the
\* identifier, zone, y, x and elevation blank (one space), the note
\* "Aucunes coordonnées".
C8_NoMarkerOneBlankResult ==
    (Parsed /\ ~MarkerPresent) =>
        /\ ~pres.raised
        /\ Len(pres.data) = 1
        /\ pres.data[1] = [id |-> Matricule, zone |-> <<" ">>, y |-> <<" ">>,
                           x |-> <<" ">>, z |-> <<" ">>,
                           note |-> "Aucunes coordonnées"]

\* a text without the marker but with table rows and a numeric elevation
C8_Witness ==
    /\ Parsed /\ ~MarkerPresent
    /\ Len(text) >= 4
    /\ \E i \in 1..Len(text) : TextLines[i] = Scopq
    /\ \E i \in 1..(Len(text) - 1) :
          TextLines[i] = AltitudeMarker /\ TextLines[i + 1] = NumLine
    /\ Len(pres.data) = 1

\* C9: when the SCOPQ row is present the parser returns exactly one result
\* if the Recouv. row is absent and exactly two if it is present, the two
\* sharing identifier, elevation and note.
C9_ScopqRowResultCount ==
    (Parsed /\ RowPresent(Scopq)) =>
        /\ ~pres.raised
        /\ Len(pres.data) = (IF RowPresent(Recouv) THEN 2 ELSE 1)
        /\ \A i \in 1..Len(pres.data) :
              /\ pres.data[i].id = pres.data[1].id
              /\ pres.data[i].z = pres.data[1].z
              /\ pres.data[i].note = pres.data[1].note

\* C10: with a coordinate table and the elevation marker standing between
\* two lines: the normalized next line is the elevation if it is a number;
\* otherwise the normalized previous line if that is a number; otherwise
\* the elevation is blank with the note "Altitude existante, mais
\* introuvable".
C10_ElevationNextThenPrevious ==
    (Parsed /\ MarkerPresent /\ ~pres.raised) =>
        \A i \in 2..(Len(text) - 1) :
            (TextLines[i] = AltitudeMarker /\ \A k \in 1..(i - 1) : TextLines[k] # AltitudeMarker) =>
                LET next == float2str(TextLines[i + 1])
                    prev == float2str(TextLines[i - 1])
                IN  \A r \in 1..Len(pres.data) :
                        IF is_number(next)
                        THEN pres.data[r].z = next /\ pres.data[r].note = " "
                        ELSE IF is_number(prev)
                        THEN pres.data[r].z = prev /\ pres.data[r].note = " "
                        ELSE /\ pres.data[r].z = <<" ">>
                             /\ pres.data[r].note = "Altitude existante, mais introuvable"

ElevationMarkerPresent == \E i \in 1..Len(text) : TextLines[i] = AltitudeMarker

\* the text with the elevation marker and a numeric line added at its end
WithElevation == text \o <<RawLine(AltitudeMarker), RawLine(NumLine)>>

\* C11: in a text with a well-formed coordinate table (one the parser
\* returns results for), the absence of the
\* elevation marker changes only elevation and note: the elevation is blank
\* with the note "Aucune altitude", and zone, y and x of every result are
\* those of the text with the marker present.
C11_MissingElevationKeepsGeometry ==
    (Parsed /\ MarkerPresent /\ ~ElevationMarkerPresent /\ ~pres.raised) =>
        LET w == extract_fxyz(Matricule, WithElevation).data
        IN  /\ ~extract_fxyz(Matricule, WithElevation).raised
            /\ Len(pres.data) = Len(w)
            /\ \A r \in 1..Len(w) :
                  /\ pres.data[r].z = <<" ">>
                  /\ pres.data[r].note = "Aucune altitude"
                  /\ w[r].z = <<"1", "2", "3", "4", ".", "5">>
                  /\ w[r].note = " "
                  /\ pres.data[r].zone = w[r].zone
                  /\ pres.data[r].y = w[r].y
                  /\ pres.data[r].x = w[r].x

\* a table with both coordinate sets and no elevation marker
C11_Witness ==
    /\ Parsed /\ MarkerPresent /\ ~ElevationMarkerPresent
    /\ ~pres.raised
    /\ Len(pres.data) = 2
    /\ pres.data[1].note = "Aucune altitude"
    /\ pres.data[1].y # pres.data[2].y

\* the first elevation marker is followed by a line that is a number
ElevationFollowedByNumber ==
    \E i \in 1..(Len(text) - 1) :
        /\ TextLines[i] = AltitudeMarker
        /\ \A k \in 1..(i - 1) : TextLines[k] # AltitudeMarker
        /\ is_number(float2str(TextLines[i + 1]))

\* the normalized line after the first elevation marker
ElevationValue ==
    float2str(TextLines[(CHOOSE i \in 1..(Len(text) - 1) :
                            /\ TextLines[i] = AltitudeMarker
                            /\ \A k \in 1..(i - 1) : TextLines[k] # AltitudeMarker) + 1])

\* C12 as stated: without the "Coordonnées" marker but with the elevation
\* marker followed by a number, the single result reports that elevation
\* with blank zone, y and x.
C12_ElevationReportedWithoutTable ==
    (Parsed /\ ~MarkerPresent /\ ElevationFollowedByNumber) =>
        /\ ~pres.raised
        /\ Len(pres.data) = 1
        /\ pres.data[1].z = ElevationValue
        /\ pres.data[1].zone = <<" ">>
        /\ pres.data[1].y = <<" ">>
        /\ pres.data[1].x = <<" ">>

\* C12 as amended: without the "Coordonnées" marker the elevation is not
\* looked for: even when the elevation marker is followed by a number, the
\* single result has a blank elevation, blank zone, y and x, and the note
\* "Aucunes coordonnées".
C12_ElevationSkippedWithoutTable ==
    (Parsed /\ ~MarkerPresent /\ ElevationFollowedByNumber) =>
        /\ ~pres.raised
        /\ Len(pres.data) = 1
        /\ pres.data[1].z = <<" ">>
        /\ pres.data[1].z # ElevationValue
        /\ pres.data[1].zone = <<" ">>
        /\ pres.data[1].y = <<" ">>
        /\ pres.data[1].x = <<" ">>
        /\ pres.data[1].note = "Aucunes coordonnées"

\* no table marker, the elevation marker followed by "-71,4"
C12_Witness ==
    /\ Parsed /\ ~MarkerPresent /\ ElevationFollowedByNumber
    /\ ElevationValue = <<"-", "7", "1", ".", "4">>
    /\ pres.data[1].z = <<" ">>

\* C14: the parser is total: for every text it returns one or two results
\* and does not raise.
C14_ParserTotal ==
    Parsed => (~pres.raised /\ Len(pres.data) \in {1, 2})

\* 0-based position of the first line equal to label at or after from
FirstFrom(label, from) ==
    CHOOSE i \in from..(Len(text) - 1) :
        /\ TextLines[i + 1] = label
        /\ \A k \in from..(i - 1) : TextLines[k + 1] # label

\* zone, y and x as the layout rule places them for a row at offset k
ExpectedFields(k) ==
    LET table_start == MarkerAt + 1
        table_length == FirstFrom(EmptyLine, table_start) - table_start
    IN  [ zone |-> TextLines[(table_start + table_length + k - 1) + 1],
          y |-> float2str(TextLines[(FirstFrom(Latitude, 0) + k) + 1]),
          x |-> float2str(TextLines[(FirstFrom(Longitude, 0) + k) + 1]) ]

RowOffset(label) == FirstFrom(label, MarkerAt + 1) - (MarkerAt + 1)

FieldsOf(r) == [zone |-> r.zone, y |-> r.y, x |-> r.x]

\* C15: for each coordinate set at offset k from the table start, the zone
\* is the line at table_start + table_length + k - 1, y the normalized line
\* at latitude_header_index + k and x the normalized line at
\* longitude_header_index + k (header indices taken in the full text).
C15_FieldPositions ==
    (Parsed /\ MarkerPresent /\ ~pres.raised) =>
        /\ FieldsOf(pres.data[1]) = ExpectedFields(RowOffset(Scopq))
        /\ (Len(pres.data) = 2) = RowPresent(Recouv)
        /\ RowPresent(Recouv) =>
              FieldsOf(pres.data[2]) = ExpectedFields(RowOffset(Recouv))

\* both sets found, the SCOPQ row not first in the table
C15_Witness ==
    /\ Parsed /\ MarkerPresent /\ ~pres.raised
    /\ Len(pres.data) = 2
    /\ RowOffset(Scopq) >= 1
    /\ RowOffset(Recouv) > RowOffset(Scopq)
    /\ pres.data[1].zone # pres.data[2].zone

\* C19: in a text with a coordinate table, whenever the elevation marker is
\* present (also as the last line) the note is not "Aucune altitude": the
\* result has a numeric elevation or the note "Altitude existante, mais
\* introuvable".
C19_NoElevationNoteOnlyWhenMarkerAbsent ==
    (Parsed /\ MarkerPresent /\ ~pres.raised /\ ElevationMarkerPresent) =>
        \A r \in 1..Len(pres.data) :
            /\ pres.data[r].note # "Aucune altitude"
            /\ \/ is_number(pres.data[r].z)
               \/ pres.data[r].note = "Altitude existante, mais introuvable"

====
